---- MODULE Spec2Model ----
(***************************************************************************)
(* Model of polars-io/src/parquet/read_impl.rs: array_iter_to_series and   *)
(* read_parquet (row-group scan loop, statistics pushdown, serial and      *)
(* parallel column decode, accumulation and finalisation).                 *)
(*                                                                         *)
(* Indices are 1-based here (row group rg = 1 is the source's rg = 0,      *)
(* field 1 is schema.fields[0]).  A cell is <<field, g>> where g is the    *)
(* 0-based position of the row in the file; the row-count column holds     *)
(* <<0, value>>.  An Option is a sequence of length 0 (None) or 1 (Some).  *)
(***************************************************************************)
EXTENDS Integers, Sequences, FiniteSets, TLC

\* ---- bounds of the model -------------------------------------------------
MaxRowGroups == 3
MaxLimit == 3
MaxChunk == 2
Offset == 1
PredMod == 2

\* the row counts a row group may have
NumRows == {1, 2}

\* ---- fixed schema (spec.md section 8: {a: int, b: string}) ---------------
Schema == << [name |-> "a", dtype |-> "int"], [name |-> "b", dtype |-> "str"] >>

Fields == 1..Len(Schema)

NullCell == <<0 - 1, 0>>

Min(a, b) == IF a < b THEN a ELSE b

\* variant: subtraction that does not stop at zero
PlainSub(a, b) == a - b

\* usize::saturating_sub
SaturatingSub(a, b) == IF a < b THEN 0 ELSE a - b

RECURSIVE SumTo(_, _)
SumTo(s, n) == IF n <= 0 THEN 0 ELSE s[n] + SumTo(s, n - 1)

RECURSIVE Flatten(_)
Flatten(ss) == IF ss = <<>> THEN <<>> ELSE Head(ss) \o Flatten(Tail(ss))

RECURSIVE SeqsOver(_, _)
SeqsOver(S, n) ==
    IF n = 0 THEN {<<>>}
    ELSE SeqsOver(S, n - 1) \cup {Append(s, x) : s \in {t \in SeqsOver(S, n - 1) : Len(t) = n - 1}, x \in S}

\* ---- inputs of read_parquet ---------------------------------------------
VARIABLES
    file_metadata,      \* row_groups: sequence of num_rows
    limit,
    projection,         \* Option<&[usize]>
    predicate,          \* Option<Arc<dyn PhysicalIoExpr>>: <<[stats_evaluator |-> BOOLEAN]>>
    statistics,         \* what collect_statistics / should_read answer for this file
    aggregate,          \* Option<&[ScanAggregation]> is Some
    parallel,           \* mut parallel
    row_count,          \* Option<RowCount>: <<[name, offset]>>
    chunk_len           \* per field, the length of the chunks its decoder yields

\* ---- locals of read_parquet ---------------------------------------------
VARIABLES
    pc,
    proj,               \* the effective projection (the Cow of lines 70-72)
    rg,
    remaining_rows,
    previous_row_count,
    dfs,
    w,                  \* one column task per projection position
    df,
    result

\* ---- history of the call (not program state) -----------------------------
VARIABLES
    visited,            \* per row group whose iteration ended: "skip" or "read"
    finished,           \* the column tasks of the current row group, in completion order
    fault,              \* an error was raised somewhere in this call
    pool_calls,         \* POOL.install calls of this call
    stats_calls,        \* collect_statistics calls of this call
    materialized,       \* rows of the tables assembled so far, before the predicate
    slack               \* per row group read under a row cap, the chunk length of its first column

\* ---- a caller that scans the same file twice (serial, then parallel) ----
VARIABLES
    call,
    first,
    parallel_arg        \* the parallel argument as the caller passed it

inputs == <<file_metadata, limit, projection, predicate, statistics, aggregate,
            row_count, chunk_len>>
history == <<visited, finished, fault>>
counters == <<pool_calls, stats_calls, materialized, slack>>
caller == <<call, first, parallel_arg>>
vars == <<file_metadata, limit, projection, predicate, statistics, aggregate, parallel,
          row_count, chunk_len, pc, proj, rg, remaining_rows, previous_row_count, dfs,
          w, df, result, visited, finished, fault, pool_calls, stats_calls, materialized,
          slack, call, first, parallel_arg>>

row_group_len == Len(file_metadata)

\* first file position of row group r
RowStart(r) == SumTo(file_metadata, r - 1)

TotalRows == SumTo(file_metadata, row_group_len)

Identity == [i \in Fields |-> i]

Reversed == [i \in Fields |-> Len(Schema) + 1 - i]

Projections == {<<>>, << <<Len(Schema)>> >>, << Reversed >>}

EffectiveProjection(p) == IF p = <<>> THEN Identity ELSE p[1]

NoResult == [ok |-> FALSE, err |-> "", df |-> <<>>]

Ok(t) == [ok |-> TRUE, err |-> "", df |-> t]

Err(stage) == [ok |-> FALSE, err |-> stage, df |-> <<>>]

\* ---- DataFrame operations -------------------------------------------------
Column(f, cells) == [name |-> Schema[f].name, dtype |-> Schema[f].dtype, cells |-> cells]

Height(t) == IF t = <<>> THEN 0 ELSE Len(t[1].cells)

WithRowCount(t, name, start) ==
    << [name |-> name, dtype |-> "idx",
        cells |-> [i \in 1..Height(t) |-> <<0, start + i - 1>>]] >> \o t

\* the row-level predicate: a row passes when its file position is a multiple of PredMod
Sat(cell) == cell[2] % PredMod = 0

\* the column the predicate reads: the first projected column
PredColumn(t) == IF row_count = <<>> THEN t[1] ELSE t[2]

Mask(t) == [i \in 1..Len(PredColumn(t).cells) |-> Sat(PredColumn(t).cells[i])]

RECURSIVE FilterCells(_, _)
FilterCells(cells, mask) ==
    IF cells = <<>> THEN <<>>
    ELSE (IF Head(mask) THEN <<Head(cells)>> ELSE <<>>) \o FilterCells(Tail(cells), Tail(mask))

\* DataFrame::filter fails when a column's length differs from the mask's
FilterShapeOk(t) == \A c \in DOMAIN t : Len(t[c].cells) = Len(Mask(t))

FilterTable(t) == [c \in DOMAIN t |-> [t[c] EXCEPT !.cells = FilterCells(t[c].cells, Mask(t))]]

\* variant: the rows are not filtered
KeepAllRows(t) == t

\* apply_predicate (line 163)
ApplyPredicate(t) == IF predicate = <<>> THEN t ELSE FilterTable(t)

\* a column-level reducer ("last"): one cell per column
Reduce(cells) == IF cells = <<>> THEN NullCell ELSE cells[Len(cells)]

ApplyAggregations(t) ==
    IF aggregate THEN [c \in DOMAIN t |-> [t[c] EXCEPT !.cells = <<Reduce(t[c].cells)>>]] ELSE t

RECURSIVE AccumulateVertical(_)
AccumulateVertical(ts) ==
    IF Len(ts) = 1 THEN ts[1]
    ELSE LET acc == AccumulateVertical(SubSeq(ts, 1, Len(ts) - 1))
             t == ts[Len(ts)]
         IN [c \in DOMAIN acc |-> [acc[c] EXCEPT !.cells = acc[c].cells \o t[c].cells]]

Slice(t, n) == [c \in DOMAIN t |-> [t[c] EXCEPT !.cells = SubSeq(t[c].cells, 1, Min(n, Len(t[c].cells)))]]

ApplyProjection(p) == [i \in DOMAIN p |-> Schema[p[i]]]

ArrowSchemaToEmptyDf(s) == [i \in DOMAIN s |-> [name |-> s[i].name, dtype |-> s[i].dtype, cells |-> <<>>]]

\* ---- column decode ---------------------------------------------------------
\* the chunk the decoder of field f yields at position it of row group r
Chunk(r, f, it) ==
    [i \in 1..Min(chunk_len[f], file_metadata[r] - it) |-> <<f, RowStart(r) + it + i - 1>>]

\* the num_rows argument of array_iter_to_series (lines 125-129 / 146-150)
RowCap(r) == IF remaining_rows < file_metadata[r] THEN <<remaining_rows>> ELSE <<>>

IdleTask == [st |-> "idle", it |-> 0, out |-> <<>>, total_count |-> 0]

\* variant: only the first chunk is kept
FirstChunkOnly(f, chunks) == IF chunks = <<>> THEN Column(f, <<>>) ELSE Column(f, chunks[1])

\* lines 45-50
ChunksToSeries(f, chunks) == IF chunks = <<>> THEN Column(f, <<>>) ELSE Column(f, Flatten(chunks))

\* ---- row group selector (lines 89-102) -------------------------------------
\* variant: anything but Ok(true) skips
SkipUnlessTrue(should_read) == should_read # "Ok(true)"

\* variant: NotFound skips as Ok(false) does
SkipOnNotFound(should_read) == should_read \in {"Ok(false)", "NotFound"}

\* line 94
SkipOn(should_read) == should_read = "Ok(false)"

\* variant: no should_read error is propagated
SwallowsErrors(should_read) == FALSE

\* lines 97-99
Propagates(should_read) == should_read = "Err"

\* lines 89-90
HasStatsEvaluator == predicate # <<>> /\ predicate[1].stats_evaluator

\* line 91 is reached in every iteration whose predicate has a statistics evaluator
CollectCalls == IF HasStatsEvaluator THEN 1 ELSE 0

\* variant: should_read judges the current row group, and only the first one is refuted
PerRowGroupSelector ==
    IF ~HasStatsEvaluator THEN "read"
    ELSE IF statistics.collect = "Err" THEN "error"
    ELSE IF statistics.collect = "None" THEN "read"
    ELSE IF SkipOn(statistics.should_read) THEN (IF rg = 1 THEN "skip" ELSE "read")
    ELSE IF Propagates(statistics.should_read) THEN "error"
    ELSE "read"

\* lines 88-102: collect_statistics gets all row groups of the file in every iteration,
\* so the answer does not depend on rg
Selector ==
    IF predicate = <<>> THEN "read"
    ELSE IF ~predicate[1].stats_evaluator THEN "read"
    ELSE IF statistics.collect = "Err" THEN "error"
    ELSE IF statistics.collect = "None" THEN "read"
    ELSE IF SkipOn(statistics.should_read) THEN "skip"
    ELSE IF Propagates(statistics.should_read) THEN "error"
    ELSE "read"

\* the answers a statistics evaluator may give: never "false" without full statistics
ShouldReadAnswers(missing) ==
    IF missing = 0 THEN {"Ok(true)", "Ok(false)", "NotFound", "Err"} ELSE {"NotFound"}

NoStatistics == [collect |-> "None", missing |-> 0, should_read |-> "Ok(true)"]

StatisticsFor(pred, n) ==
    IF pred = <<>> THEN {NoStatistics}
    ELSE IF ~pred[1].stats_evaluator THEN {NoStatistics}
    ELSE {NoStatistics, [NoStatistics EXCEPT !.collect = "Err"]}
         \cup {[collect |-> "Some", missing |-> m, should_read |-> a] :
                 m \in 0..n, a \in {"Ok(true)", "Ok(false)", "NotFound", "Err"}}

\* ---- initial states ----------------------------------------------------------
InitLocals ==
    /\ pc = "start"
    /\ proj = <<>>
    /\ rg = 1
    /\ remaining_rows = 0
    /\ previous_row_count = 0
    /\ dfs = <<>>
    /\ w = <<>>
    /\ df = <<>>
    /\ result = NoResult
    /\ visited = <<>>
    /\ finished = <<>>
    /\ fault = FALSE
    /\ pool_calls = 0
    /\ stats_calls = 0
    /\ materialized = 0
    /\ slack = 0

InitInputs ==
    /\ file_metadata \in SeqsOver(NumRows, MaxRowGroups)
    /\ limit \in 0..MaxLimit
    /\ projection \in Projections
    /\ predicate \in {<<>>} \cup {<<[stats_evaluator |-> b]>> : b \in BOOLEAN}
    /\ statistics \in {s \in StatisticsFor(predicate, Len(file_metadata)) :
                         s.should_read \in ShouldReadAnswers(s.missing)}
    /\ aggregate \in BOOLEAN
    /\ row_count \in {<<>>, <<[name |-> "row_nr", offset |-> Offset]>>}
    /\ chunk_len \in {c \in [Fields -> {1, MaxChunk}] :
                        \A f \in Fields :
                            (\A i \in DOMAIN EffectiveProjection(projection) :
                                 EffectiveProjection(projection)[i] # f) => c[f] = 1}

Init ==
    /\ InitInputs
    /\ parallel \in BOOLEAN
    /\ parallel_arg = parallel
    /\ InitLocals
    /\ call = 1
    /\ first = NoResult

\* ---- return: the locals are dropped ---------------------------------------------
Return(res) ==
    /\ pc' = "done"
    /\ result' = res
    /\ fault' = ~res.ok
    /\ proj' = <<>>
    /\ rg' = 1
    /\ remaining_rows' = 0
    /\ previous_row_count' = 0
    /\ dfs' = <<>>
    /\ w' = <<>>
    /\ df' = <<>>
    /\ visited' = <<>>
    /\ finished' = <<>>
    /\ pool_calls' = 0
    /\ stats_calls' = 0
    /\ materialized' = 0
    /\ slack' = 0

\* variant: the flag is taken as passed
ParallelAsPassed(p, par) == par

\* lines 74-76
ParallelPolicy(p, par) == IF Len(p) = 1 THEN FALSE ELSE par

\* ---- lines 65-85 -----------------------------------------------------------
ReadMetadata ==
    /\ pc = "start"
    /\ pc' = "loop"
    /\ proj' = EffectiveProjection(projection)
    /\ parallel' = ParallelPolicy(EffectiveProjection(projection), parallel)
    /\ remaining_rows' = limit
    /\ previous_row_count' = 0
    /\ dfs' = <<>>
    /\ rg' = 1
    /\ UNCHANGED <<inputs, w, df, result, history, counters, caller>>

\* metadata is None and read::read_metadata fails (line 67)
ReadMetadataErr ==
    /\ pc = "start"
    /\ Return(Err("metadata"))
    /\ UNCHANGED <<inputs, parallel, caller>>

\* variant: the counter is not advanced
KeepRowCount(prev, n) == prev

\* lines 95 and 166
AddRowCount(prev, n) == prev + n

\* ---- lines 86-102 ----------------------------------------------------------
SkipRowGroup ==
    /\ pc = "loop"
    /\ rg <= row_group_len
    /\ Selector = "skip"
    /\ previous_row_count' = AddRowCount(previous_row_count, file_metadata[rg])
    /\ rg' = rg + 1
    /\ visited' = Append(visited, "skip")
    /\ stats_calls' = stats_calls + CollectCalls
    /\ UNCHANGED <<inputs, parallel, pc, proj, remaining_rows, dfs, w, df, result,
                   finished, fault, pool_calls, materialized, slack, caller>>

StatisticsErr ==
    /\ pc = "loop"
    /\ rg <= row_group_len
    /\ Selector = "error"
    /\ Return(Err("statistics"))
    /\ UNCHANGED <<inputs, parallel, caller>>

\* the row group is kept: its column tasks are created (lines 110-153)
KeepRowGroup ==
    /\ pc = "loop"
    /\ rg <= row_group_len
    /\ Selector = "read"
    /\ w' = [k \in DOMAIN proj |-> IdleTask]
    /\ pc' = "columns"
    /\ stats_calls' = stats_calls + CollectCalls
    /\ pool_calls' = pool_calls + (IF parallel THEN 1 ELSE 0)
    /\ UNCHANGED <<inputs, parallel, proj, rg, remaining_rows, previous_row_count, dfs, df,
                   result, history, materialized, slack, caller>>

\* serial: the columns are decoded one after the other, in projection order
CanRun(k) == parallel \/ \A j \in 1..(k - 1) : w[j].st = "done"

\* variant: a capped column drains its iterator
NeverStops(cap, total) == FALSE

\* the test of lines 38-40
Stops(cap, total) == cap # <<>> /\ total >= cap[1]

\* A column task asks its iterator for the next chunk (lines 26-44); the first
\* request follows mmap_columns and to_deserializer (lines 116-123 / 137-144).
TaskNext(k) ==
    /\ pc = "columns"
    /\ \/ w[k].st = "idle" /\ CanRun(k)
       \/ w[k].st = "run"
    /\ LET t == w[k]
           chunk == Chunk(rg, proj[k], t.it)
           st == IF t.it >= file_metadata[rg] THEN "done"
                 ELSE IF Stops(RowCap(rg), t.total_count + Len(chunk)) THEN "done" ELSE "run"
       IN /\ IF t.it >= file_metadata[rg]
             THEN w' = [w EXCEPT ![k].st = "done"]
             ELSE w' = [w EXCEPT ![k] =
                          [st |-> st,
                           it |-> t.it + Len(chunk),
                           out |-> Append(t.out, chunk),
                           total_count |-> t.total_count + Len(chunk)]]
          /\ finished' = IF st = "done" THEN Append(finished, k) ELSE finished
    /\ UNCHANGED <<inputs, parallel, pc, proj, rg, remaining_rows, previous_row_count, dfs, df,
                   result, visited, fault, counters, caller>>

\* to_deserializer fails, or the iterator yields an error (arr? at line 33, collect at line 28)
TaskErr(k) ==
    /\ pc = "columns"
    /\ \/ w[k].st = "idle" /\ CanRun(k)
       \/ w[k].st = "run" /\ w[k].it < file_metadata[rg]
    /\ w' = [w EXCEPT ![k].st = "err"]
    /\ fault' = TRUE
    /\ UNCHANGED <<inputs, parallel, pc, proj, rg, remaining_rows, previous_row_count, dfs, df,
                   result, visited, finished, counters, caller>>

\* collect::<Result<Vec<_>>>()? with a failed column (lines 131-132, 152): the tasks
\* that are running end first, those not yet started need not start
DecodeErr ==
    /\ pc = "columns"
    /\ \E k \in DOMAIN w : w[k].st = "err"
    /\ \A k \in DOMAIN w : w[k].st # "run"
    /\ Return(Err("decode"))
    /\ UNCHANGED <<inputs, parallel, caller>>

\* variant: one returned column is enough
AnyReturned(tasks) == \E k \in DOMAIN tasks : tasks[k].st = "done"

\* every column task returned Ok (the ? of lines 132 and 152 passes)
Joined(tasks) == \A k \in DOMAIN tasks : tasks[k].st = "done"

\* variant: the series in the order the tasks completed
CollectInCompletionOrder(tasks, order) ==
    [i \in DOMAIN tasks |-> ChunksToSeries(proj[order[i]], tasks[order[i]].out)]

\* collect::<Result<Vec<_>>>(): the series by projection position
Collect(tasks, order) == [k \in DOMAIN tasks |-> ChunksToSeries(proj[k], tasks[k].out)]

\* line 160
RowCountStart(prev, rc) == prev + rc.offset

\* lines 155-161
Assemble ==
    /\ pc = "columns"
    /\ Joined(w)
    /\ remaining_rows' = SaturatingSub(remaining_rows, file_metadata[rg])
    /\ df' = IF row_count # <<>>
             THEN WithRowCount(Collect(w, finished), row_count[1].name,
                               RowCountStart(previous_row_count, row_count[1]))
             ELSE Collect(w, finished)
    /\ w' = <<>>
    /\ finished' = <<>>
    /\ pc' = "filter"
    /\ materialized' = materialized + Height(Collect(w, finished))
    /\ slack' = slack + (IF RowCap(rg) # <<>> THEN chunk_len[proj[1]] ELSE 0)
    /\ UNCHANGED <<inputs, parallel, proj, rg, previous_row_count, dfs, result, visited,
                   fault, pool_calls, stats_calls, caller>>

\* variant: the table is put in front
PushFront(v, t) == <<t>> \o v

\* line 167
Push(v, t) == Append(v, t)

\* lines 163-167
Accumulate ==
    /\ pc = "filter"
    /\ predicate # <<>> => FilterShapeOk(df)
    /\ dfs' = Push(dfs, ApplyAggregations(ApplyPredicate(df)))
    /\ previous_row_count' = AddRowCount(previous_row_count, file_metadata[rg])
    /\ rg' = rg + 1
    /\ visited' = Append(visited, "read")
    /\ df' = <<>>
    /\ pc' = "loop"
    /\ UNCHANGED <<inputs, parallel, proj, remaining_rows, w, result, finished, fault,
                   counters, caller>>

\* apply_predicate or apply_aggregations fails (lines 163-164)
AccumulateErr ==
    /\ pc = "filter"
    /\ \E stage \in {"predicate", "aggregation"} :
         /\ stage = "predicate" => predicate # <<>>
         /\ stage = "aggregation" => aggregate /\ (predicate # <<>> => FilterShapeOk(df))
         /\ Return(Err(stage))
    /\ UNCHANGED <<inputs, parallel, caller>>

\* variant: the empty table is built over the whole schema
FullSchema == Schema

\* lines 171-175
EmptySchema == IF projection # <<>> THEN ApplyProjection(proj) ELSE Schema

\* variant: the result is not sliced
NoTruncate(t) == t

\* line 180
Truncate(t) == Slice(t, limit)

\* lines 170-181
Finalize ==
    /\ pc = "loop"
    /\ rg > row_group_len
    /\ IF dfs = <<>>
       THEN Return(Ok(ArrowSchemaToEmptyDf(EmptySchema)))
       ELSE Return(Ok(Truncate(ApplyAggregations(AccumulateVertical(dfs)))))
    /\ UNCHANGED <<inputs, parallel, caller>>

\* accumulate_dataframes_vertical or the final apply_aggregations fails (lines 178-179)
FinalizeErr ==
    /\ pc = "loop"
    /\ rg > row_group_len
    /\ dfs # <<>>
    /\ Return(Err("finalize"))
    /\ UNCHANGED <<inputs, parallel, caller>>

Next ==
    \/ ReadMetadata
    \/ ReadMetadataErr
    \/ SkipRowGroup
    \/ StatisticsErr
    \/ KeepRowGroup
    \/ \E k \in DOMAIN w : TaskNext(k)
    \/ \E k \in DOMAIN w : TaskErr(k)
    \/ DecodeErr
    \/ Assemble
    \/ Accumulate
    \/ AccumulateErr
    \/ Finalize
    \/ FinalizeErr

Spec == Init /\ [][Next]_vars

\* ---- the same scan called twice: serial first, then parallel ------------------
InitTwice ==
    /\ InitInputs
    /\ parallel = FALSE
    /\ parallel_arg = FALSE
    /\ InitLocals
    /\ call = 1
    /\ first = NoResult

SecondCall ==
    /\ pc = "done"
    /\ call = 1
    /\ result.ok
    /\ call' = 2
    /\ first' = result
    /\ parallel' = TRUE
    /\ parallel_arg' = TRUE
    /\ pc' = "start"
    /\ result' = NoResult
    /\ UNCHANGED <<inputs, proj, rg, remaining_rows, previous_row_count, dfs, w, df, history,
                   counters>>

NextTwice ==
    \/ Next
    \/ SecondCall

SpecTwice == InitTwice /\ [][NextTwice]_vars

\* ---- properties ------------------------------------------------------------------
\* the statistics evaluator answered Ok(false) on statistics that were collected
StatsSayFalse ==
    HasStatsEvaluator /\ statistics.collect = "Some" /\ statistics.should_read = "Ok(false)"

\* collect_statistics fails, or should_read fails with something else than NotFound
StatsFail ==
    HasStatsEvaluator /\ (statistics.collect = "Err"
                          \/ (statistics.collect = "Some" /\ statistics.should_read = "Err"))

Range(q) == {q[i] : i \in DOMAIN q}

Reads == {i \in DOMAIN visited : visited[i] = "read"}

\* every row of the data columns of t passes the row-level predicate
AllSat(t) == \A c \in DOMAIN t : t[c].dtype # "idx" => \A x \in Range(t[c].cells) : Sat(x)

Returned == pc = "done" /\ result.ok

\* C1: a row group is skipped only when the predicate has a statistics evaluator,
\* statistics were collected and should_read answered Ok(false); in every other case
\* (no predicate, no evaluator, no statistics, Ok(true), NotFound) the row group is
\* decoded and its table appended: one table per row group that was not skipped.
C1_SkipOnlyOnOkFalse ==
    /\ \A i \in DOMAIN visited : (visited[i] = "skip") <=> StatsSayFalse
    /\ pc \in {"columns", "filter"} => ~StatsSayFalse
    /\ pc \in {"loop", "columns", "filter"} => Len(dfs) = Cardinality(Reads)

C1_Witness ==
    /\ pc = "loop"
    /\ Len(visited) >= 2
    /\ visited[2] = "skip"
    /\ dfs = <<>>
    /\ previous_row_count > 0

\* C2: every table that is accumulated went through the row-level predicate, also when
\* should_read was indeterminate; with a predicate and no aggregation every row of the
\* returned table passes the predicate.
C2_RowsPassPredicate ==
    (predicate # <<>> /\ ~aggregate) =>
        /\ \A i \in DOMAIN dfs : AllSat(dfs[i])
        /\ Returned => AllSat(result.df)

C2_Witness ==
    /\ Returned
    /\ HasStatsEvaluator
    /\ statistics.collect = "Some"
    /\ statistics.should_read = "NotFound"
    /\ ~aggregate
    /\ TotalRows <= limit
    /\ Height(result.df) > 0
    /\ Height(result.df) < TotalRows

\* C3: a successful read_parquet returns at most limit rows, in every column.
C3_AtMostLimit ==
    Returned => \A c \in DOMAIN result.df : Len(result.df[c].cells) <= limit

C3_Witness ==
    /\ Returned
    /\ limit > 0
    /\ limit < TotalRows
    /\ Height(result.df) = limit

\* C4: without predicate and aggregation the result holds exactly the first
\* min(limit, total rows) rows of the file, in file order, in every projected column.
C4_FirstRowsOfFile ==
    (Returned /\ predicate = <<>> /\ ~aggregate) =>
        LET n == Min(limit, TotalRows)
            P == EffectiveProjection(projection)
            t == result.df
            d == Len(t) - Len(P)
        IN /\ d \in {0, 1}
           /\ \A c \in DOMAIN t : Len(t[c].cells) = n
           /\ \A k \in DOMAIN P : t[k + d] = Column(P[k], [i \in 1..n |-> <<P[k], i - 1>>])

C4_Witness ==
    /\ Returned
    /\ predicate = <<>>
    /\ ~aggregate
    /\ file_metadata = <<2, 2, 2>>
    /\ limit = 3
    /\ Height(result.df) = 3

\* C5: the scan with parallel = true returns the table the scan with parallel = false
\* returned on the same inputs, whatever the interleaving of the column tasks.
C5_ParallelEqualsSerial ==
    (call = 2 /\ Returned) => result = first

C5_Witness ==
    /\ call = 2
    /\ Returned
    /\ parallel
    /\ projection = << Reversed >>
    /\ Height(result.df) >= 2
    /\ chunk_len[1] # chunk_len[2]

\* C6: when no table was accumulated (no row group, or every row group skipped) the
\* result is the zero-row table of exactly the projected fields, names and types, in
\* projection order.
C6_TypedEmptyTable ==
    (Returned /\ (row_group_len = 0 \/ StatsSayFalse)) =>
        LET P == EffectiveProjection(projection)
        IN result.df = [k \in DOMAIN P |->
                          [name |-> Schema[P[k]].name, dtype |-> Schema[P[k]].dtype, cells |-> <<>>]]

C6_Witness ==
    /\ Returned
    /\ StatsSayFalse
    /\ row_group_len >= 2
    /\ projection = << <<Len(Schema)>> >>
    /\ Len(result.df) = 1

\* C7: the row-count column of a processed row group starts at offset + the num_rows of
\* all row groups before it and has one value per row of the table as assembled (after
\* the row cap, before the predicate).
C7_RowCountColumn ==
    (pc = "filter" /\ row_count # <<>>) =>
        /\ df[1].name = row_count[1].name
        /\ df[1].cells = [i \in 1..Len(df[2].cells) |->
                            <<0, row_count[1].offset + RowStart(rg) + i - 1>>]

C7_Witness ==
    /\ pc = "filter"
    /\ row_count # <<>>
    /\ rg = 3
    /\ predicate # <<>>
    /\ Len(df[1].cells) >= 1
    /\ Len(df[1].cells) < file_metadata[rg]

\* C8: row groups are visited in file order and their tables are kept and concatenated
\* in that order: rows of an earlier row group precede rows of a later one.
C8_RowGroupOrder ==
    /\ pc \in {"loop", "columns", "filter"} => Len(visited) = rg - 1
    /\ \A i \in DOMAIN dfs : \A j \in DOMAIN dfs : i < j =>
         \A c \in DOMAIN dfs[i] :
            \A x \in Range(dfs[i][c].cells) : \A y \in Range(dfs[j][c].cells) :
                (x[1] >= 0 /\ y[1] >= 0) => x[2] < y[2]
    /\ Returned =>
         \A c \in DOMAIN result.df :
            \A a \in DOMAIN result.df[c].cells : \A b \in DOMAIN result.df[c].cells :
                a < b => result.df[c].cells[a][2] < result.df[c].cells[b][2]

C8_Witness ==
    /\ pc = "loop"
    /\ parallel
    /\ Len(dfs) = 3
    /\ \A i \in DOMAIN dfs : Height(dfs[i]) > 0

\* C9: once an error is raised the call can only end with an error result that carries
\* no table: it is either already returned, or the column tasks of the current row
\* group are being joined; a statistics error never ends in a table.
C9_FailFast ==
    /\ fault => \/ pc = "done" /\ ~result.ok /\ result.df = <<>>
                \/ pc = "columns" /\ \E k \in DOMAIN w : w[k].st = "err"
    /\ Returned => ~(row_group_len > 0 /\ StatsFail)

C9_Witness ==
    /\ fault
    /\ pc = "columns"
    /\ rg >= 2
    /\ dfs # <<>>
    /\ \E k \in DOMAIN w : w[k].st = "run"

SkipStep == pc = "loop" /\ pc' = "loop" /\ rg' = rg + 1

Requests(k) ==
    /\ pc = "columns"
    /\ pc' = "columns"
    /\ k \in DOMAIN w
    /\ w'[k] # w[k]
    /\ w'[k].st # "err"

\* C14: with a row cap n (n = 0 included) a column never asks its iterator for a chunk
\* once the rows it has consumed are >= n; without a cap it drains the iterator.
C14_NoRequestAtOrPastCap ==
    [][\A k \in 1..Len(Schema) :
          /\ Requests(k) => ~Stops(RowCap(rg), w[k].total_count)
          /\ (k \in DOMAIN w' /\ pc' = "columns" /\ RowCap(rg) = <<>> /\ w'[k].st = "done")
                => w'[k].total_count = file_metadata[rg]]_vars

\* C15: the projected columns of every per-row-group table have the same length, for any
\* chunk boundaries of the column decoders, with and without a row cap.
C15_ColumnsSameLength ==
    pc = "filter" =>
        \A i, j \in DOMAIN df : Len(df[i].cells) = Len(df[j].cells)

\* all columns of one row group are materialized with the same remaining_rows value
C15_SameCap ==
    [][(pc = "columns" /\ pc' = "columns") => remaining_rows' = remaining_rows /\ rg' = rg]_vars

\* C16: collect_statistics is invoked at most once during one call of read_parquet,
\* whatever the number of row groups.
C16_StatisticsCollectedOnce == stats_calls <= 1

\* C17: when the iteration of row group i ends (skipped, read under a cap, read in full
\* or emptied by the predicate), previous_row_count is the sum of num_rows of the row
\* groups up to and including i; during iteration i it is the sum of those before i.
C17_PreviousRowCountIsPrefixSum ==
    pc \in {"loop", "columns", "filter"} =>
        previous_row_count = SumTo(file_metadata, rg - 1)

C17_Witness ==
    /\ pc = "loop"
    /\ rg = 4
    /\ visited = <<"read", "read", "read">>
    /\ predicate # <<>>
    /\ limit = 1
    /\ file_metadata[1] = 2
    /\ \E i \in DOMAIN dfs : Height(dfs[i]) = 0
    /\ previous_row_count = SumTo(file_metadata, 3)

\* a row group that was read reaches its accumulation step (lines 155-156)
ReadStep == pc = "columns" /\ pc' = "filter"

\* C18: remaining_rows starts at the caller's limit, is never negative and never
\* increases; a row group that is read sets it to max(0, remaining_rows - num_rows) with
\* the row group's full num_rows, whatever was materialized or survives the predicate.
C18_RemainingRows ==
    [][/\ (pc = "start" /\ pc' = "loop") => remaining_rows' = limit
       /\ pc' \in {"loop", "columns", "filter"} => remaining_rows' >= 0
       /\ (pc \in {"loop", "columns", "filter"} /\ pc' \in {"loop", "columns", "filter"})
             => remaining_rows' <= remaining_rows
       /\ ReadStep =>
             remaining_rows' = (IF remaining_rows - file_metadata[rg] > 0
                                THEN remaining_rows - file_metadata[rg] ELSE 0)
       /\ (pc' \in {"loop", "columns", "filter"} /\ ~ReadStep /\ pc # "start")
             => remaining_rows' = remaining_rows]_vars

C18_Witness ==
    /\ pc = "filter"
    /\ limit = 1
    /\ file_metadata[rg] = 2
    /\ rg = 1
    /\ remaining_rows = 0
    /\ predicate # <<>>
    /\ Height(df) = 2

\* C19: in parallel mode every column worker of a row group has returned before the row
\* group's accumulation step begins, no worker exists outside the decode of one row group
\* (so none of the next row group starts before the accumulation), and each worker fills
\* one result slot, the one at its own projection index.
C19_JoinBeforeAccumulate ==
    [][parallel =>
        /\ ReadStep =>
              /\ \A k \in DOMAIN w : w[k].st = "done"
              /\ DOMAIN w = DOMAIN proj
              /\ Len(finished) = Len(w)
              /\ LET o == IF row_count # <<>> THEN 1 ELSE 0
                 IN \A k \in DOMAIN w : /\ df'[k + o].name = Schema[proj[k]].name
                                        /\ df'[k + o].cells = Flatten(w[k].out)
        /\ pc' \in {"loop", "filter"} => w' = <<>>
        /\ (pc = "columns" /\ pc' = "columns") =>
              /\ rg' = rg /\ dfs' = dfs /\ DOMAIN w' = DOMAIN w
              /\ \A j, k \in DOMAIN w : (w'[j] # w[j] /\ w'[k] # w[k]) => j = k
              /\ \A k \in DOMAIN w : w[k].st \in {"done", "err"} => w'[k] = w[k]
              /\ \A i, j \in DOMAIN finished' : finished'[i] = finished'[j] => i = j]_vars

C19_Witness ==
    /\ parallel
    /\ pc = "columns"
    /\ rg = 2
    /\ Len(dfs) = 1
    /\ finished = <<2, 1>>
    /\ \A k \in DOMAIN w : w[k].st = "done" /\ Len(w[k].out) = 2

\* C20: within one call the keep/skip decision is the same for every row group: either
\* every row group visited was skipped and no table was accumulated, or none was skipped
\* and every row group visited left a table.
C20_AllSkippedOrNone ==
    pc \in {"loop", "columns", "filter"} =>
        /\ \A i, j \in DOMAIN visited : visited[i] = visited[j]
        /\ Len(visited) = rg - 1
        /\ \/ visited = <<>>
           \/ visited[1] = "skip" /\ dfs = <<>> /\ StatsSayFalse /\ pc = "loop"
           \/ visited[1] = "read" /\ Len(dfs) = Len(visited) /\ ~StatsSayFalse

C20_Witness ==
    /\ pc = "loop"
    /\ rg = 4
    /\ visited = <<"skip", "skip", "skip">>
    /\ dfs = <<>>
    /\ file_metadata = <<1, 2, 1>>

====
